---- MODULE Spec2Model ----
(***************************************************************************)
(* Authentication core of the inventory-management backend:                *)
(*   app/adapters/auth/jwt_manager.py      JWTManager                      *)
(*   app/api/dependencies.py               get_current_user                *)
(*   app/domain/services/user_service.py   UserService                     *)
(*   app/application/services/user_application_service.py                  *)
(*   app/adapters/repositories/user_repository_impl.py                     *)
(*   app/application/dto/user_dto.py       UserCreateDTO, UserDTO, TokenDTO*)
(*   app/api/v1/auth_router.py             login, register                 *)
(*   app/api/v1/user_router.py             register_user                   *)
(*   app/config/settings.py                SECRET_KEY, ALGORITHM, TTL      *)
(*                                                                         *)
(* Time is counted in clock ticks, TicksPerSecond of them to the second:   *)
(* datetime.utcnow() has sub-second resolution, while the exp claim of a   *)
(* token and the instant the decoder compares it with are whole seconds.   *)
(***************************************************************************)
EXTENDS Integers, Sequences, FiniteSets, TLC

VARIABLES now, tk, obs, users, nextId, pc, call, out, pw, conc, prod

vars == <<now, tk, obs, users, nextId, pc, call, out, pw, conc, prod>>
tokenVars == <<now, tk, obs>>
userVars == <<users, nextId, pc, call, out>>

----------------------------------------------------------------------------
(* Bounds of the model *)

TicksPerSecond == 2
MaxTime == 6
MaxDelta == 3

----------------------------------------------------------------------------
(* Configuration: app/config/settings.py *)

SECRET_KEY == "generate-a-strong-key-for-prod"
ALGORITHM == "HS256"
ACCESS_TOKEN_EXPIRE_MINUTES == 30

\* The settings module of the process
Settings ==
  [SECRET_KEY |-> SECRET_KEY, ALGORITHM |-> ALGORITHM,
   ACCESS_TOKEN_EXPIRE_MINUTES |-> ACCESS_TOKEN_EXPIRE_MINUTES]

OtherKey == "some-other-key"

----------------------------------------------------------------------------
(* Claims: a JSON object as a record, one field per claim name the model   *)
(* uses; Absent / NoExp mark a claim that is not in the mapping.           *)

Absent == "<absent>"
NoExp == 0 - 1

NoClaims == [sub |-> Absent, aud |-> Absent, exp |-> NoExp]

\* The dicts handed to create_access_token. A caller-supplied exp is a
\* datetime (ticks).
Datas ==
  [sub : {Absent, "alice"}, aud : {Absent, "inventory"}, exp : {NoExp, 1}]

\* expires_delta: None, or a timedelta of 0..MaxDelta ticks.
NoDelta == 0 - 1
Deltas == {NoDelta} \cup (0..MaxDelta)

\* timedelta(minutes=settings.ACCESS_TOKEN_EXPIRE_MINUTES), in ticks
DefaultDelta == ACCESS_TOKEN_EXPIRE_MINUTES * 60 * TicksPerSecond

\* Python's None and a returned dict, as one record shape.
PyNone == [isNone |-> TRUE, claims |-> NoClaims]
PyDict(c) == [isNone |-> FALSE, claims |-> c]

----------------------------------------------------------------------------
(* Signed tokens (python-jose, called at jwt_manager.py:49 and :67).       *)
(* A compact token is header.payload.signature. Here:                      *)
(*   fmt  "jws" when the string splits into three segments with a JSON     *)
(*        header, "garbage" otherwise;                                     *)
(*   alg  the alg value of the header segment;                             *)
(*   seg  the payload segment: ok says that its bytes decode to a JSON     *)
(*        object, json is that object;                                     *)
(*   mac  the bytes the signature segment decodes to;                      *)
(*   pad  the bits of the last character of the signature segment that     *)
(*        carry no data: the base64url decoder ignores them.               *)
(* The MAC is ideal: two MACs are equal only when key, algorithm and the   *)
(* signed bytes are.                                                       *)

Seg(c) == [ok |-> TRUE, json |-> c]
CorruptSeg == [ok |-> FALSE, json |-> NoClaims]

Hmac(key, alg, seg) == [key |-> key, alg |-> alg, seg |-> seg]
NoMac == Hmac("", "", CorruptSeg)

Garbage == [fmt |-> "garbage", alg |-> "", seg |-> CorruptSeg, mac |-> NoMac, pad |-> 0]

\* jose.jwt.encode: a datetime exp becomes whole seconds since the epoch
\* (timegm of the utctimetuple), then header and payload are signed.
NumericDate(t) == t \div TicksPerSecond

jwt_encode(claims, key, algorithm) ==
  LET c == IF claims.exp = NoExp THEN claims
           ELSE [claims EXCEPT !.exp = NumericDate(claims.exp)]
  IN  [fmt |-> "jws", alg |-> algorithm, seg |-> Seg(c),
       mac |-> Hmac(key, algorithm, Seg(c)), pad |-> 0]

\* Variants of jwt_decode with a defect: the expiry is not checked; the
\* signature is not checked; the signature is checked for the key alone.
jwt_decode_no_exp(token, key, algorithms, utcnow) ==
  LET fail(e) == [err |-> e, claims |-> NoClaims]
      c == token.seg.json
  IN  IF token.fmt # "jws" \/ ~token.seg.ok THEN fail("JWTError")
      ELSE IF token.alg \notin algorithms THEN fail("JWTError")
      ELSE IF token.mac # Hmac(key, token.alg, token.seg) THEN fail("JWTError")
      ELSE IF c.aud # Absent THEN fail("JWTClaimsError")
      ELSE [err |-> "", claims |-> c]

jwt_decode_unverified(token, key, algorithms, utcnow) ==
  LET fail(e) == [err |-> e, claims |-> NoClaims]
      c == token.seg.json
  IN  IF token.fmt # "jws" \/ ~token.seg.ok THEN fail("JWTError")
      ELSE IF c.exp # NoExp /\ c.exp < NumericDate(utcnow)
           THEN fail("ExpiredSignatureError")
      ELSE IF c.aud # Absent THEN fail("JWTClaimsError")
      ELSE [err |-> "", claims |-> c]

jwt_decode_key_only(token, key, algorithms, utcnow) ==
  LET fail(e) == [err |-> e, claims |-> NoClaims]
      c == token.seg.json
  IN  IF token.fmt # "jws" \/ ~token.seg.ok THEN fail("JWTError")
      ELSE IF token.alg \notin algorithms THEN fail("JWTError")
      ELSE IF token.mac.key # key THEN fail("JWTError")
      ELSE IF c.exp # NoExp /\ c.exp < NumericDate(utcnow)
           THEN fail("ExpiredSignatureError")
      ELSE IF c.aud # Absent THEN fail("JWTClaimsError")
      ELSE [err |-> "", claims |-> c]

\* Variant of jwt_decode with a defect: a token without exp is refused.
jwt_decode_require_exp(token, key, algorithms, utcnow) ==
  LET fail(e) == [err |-> e, claims |-> NoClaims]
      c == token.seg.json
  IN  IF token.fmt # "jws" \/ ~token.seg.ok THEN fail("JWTError")
      ELSE IF token.alg \notin algorithms THEN fail("JWTError")
      ELSE IF token.mac # Hmac(key, token.alg, token.seg) THEN fail("JWTError")
      ELSE IF c.exp = NoExp THEN fail("JWTClaimsError")
      ELSE IF c.exp < NumericDate(utcnow) THEN fail("ExpiredSignatureError")
      ELSE IF c.aud # Absent THEN fail("JWTClaimsError")
      ELSE [err |-> "", claims |-> c]

\* Variant of jwt_decode with a defect: exp is compared for equality with
\* the second before the current one.
jwt_decode_expired_equal(token, key, algorithms, utcnow) ==
  LET fail(e) == [err |-> e, claims |-> NoClaims]
      c == token.seg.json
  IN  IF token.fmt # "jws" \/ ~token.seg.ok THEN fail("JWTError")
      ELSE IF token.alg \notin algorithms THEN fail("JWTError")
      ELSE IF token.mac # Hmac(key, token.alg, token.seg) THEN fail("JWTError")
      ELSE IF c.exp # NoExp /\ c.exp + 1 = NumericDate(utcnow)
           THEN fail("ExpiredSignatureError")
      ELSE IF c.aud # Absent THEN fail("JWTClaimsError")
      ELSE [err |-> "", claims |-> c]

\* jose.jwt.decode(token, key, algorithms=[...]) at instant utcnow, with no
\* audience configured: the exception it raises ("" for none) and the
\* claims it returns.
jwt_decode(token, key, algorithms, utcnow) ==
  LET fail(e) == [err |-> e, claims |-> NoClaims]
      c == token.seg.json
  IN  IF token.fmt # "jws" \/ ~token.seg.ok THEN fail("JWTError")
      ELSE IF token.alg \notin algorithms THEN fail("JWTError")
      ELSE IF token.mac # Hmac(key, token.alg, token.seg) THEN fail("JWTError")
      ELSE IF c.exp # NoExp /\ c.exp < NumericDate(utcnow)
           THEN fail("ExpiredSignatureError")
      ELSE IF c.aud # Absent THEN fail("JWTClaimsError")
      ELSE [err |-> "", claims |-> c]

----------------------------------------------------------------------------
(* JWTManager: jwt_manager.py *)

\* Variant of create_access_token with a defect: expires_delta is ignored.
create_access_token_default_only(data, expires_delta, utcnow) ==
  LET expire == utcnow + DefaultDelta
      to_encode == [data EXCEPT !.exp = expire]
  IN  jwt_encode(to_encode, SECRET_KEY, ALGORITHM)

\* create_access_token(data, expires_delta) called at instant utcnow
create_access_token(data, expires_delta, utcnow) ==
  LET delta == IF expires_delta = NoDelta \/ expires_delta = 0
               THEN DefaultDelta ELSE expires_delta
      expire == utcnow + delta
      to_encode == [data EXCEPT !.exp = expire]
  IN  jwt_encode(to_encode, SECRET_KEY, ALGORITHM)

\* verify_access_token(token) called at instant utcnow
verify_access_token(token, utcnow) ==
  LET r == jwt_decode(token, SECRET_KEY, {ALGORITHM}, utcnow)
  IN  IF r.err = "" THEN PyDict(r.claims) ELSE PyNone

\* verify_access_token(token) in a process whose settings module is s
verify_access_token_in(s, token, utcnow) ==
  LET r == jwt_decode(token, s.SECRET_KEY, {s.ALGORITHM}, utcnow)
  IN  IF r.err = "" THEN PyDict(r.claims) ELSE PyNone

\* The settings of a process started with another SECRET_KEY
OtherSettings == [Settings EXCEPT !.SECRET_KEY = OtherKey]

----------------------------------------------------------------------------
(* The authentication dependency: api/dependencies.py *)

NoHeader == [present |-> FALSE, scheme |-> "", param |-> Garbage]
Header(scheme, token) == [present |-> TRUE, scheme |-> scheme, param |-> token]

\* oauth2_scheme = OAuth2PasswordBearer(tokenUrl=...): TRUE when it hands
\* the header's parameter on as the token, FALSE when it answers 401.
oauth2_scheme(header) == header.present /\ header.scheme = "Bearer"

\* get_current_user(token): verify_access_token turns every decoding
\* error into None, so the except branch is never taken.
get_current_user(token, utcnow) ==
  [raised |-> FALSE, payload |-> verify_access_token(token, utcnow)]

\* A request to a route that declares Depends(get_current_user).
Response(status, challenge, ran, user) ==
  [status |-> status, challenge |-> challenge, handlerRan |-> ran, user |-> user]

guarded_route(header, utcnow) ==
  IF ~oauth2_scheme(header) THEN Response(401, TRUE, FALSE, PyNone)
  ELSE LET r == get_current_user(header.param, utcnow)
       IN  IF r.raised THEN Response(401, TRUE, FALSE, PyNone)
           ELSE Response(200, FALSE, TRUE, r.payload)

----------------------------------------------------------------------------
(* Token life cycle: one token is issued, the clock advances, and tokens   *)
(* are presented to verify_access_token directly or in the Authorization   *)
(* header of a request to a guarded route.                                 *)

\* tk: the issuance (the arguments of create_access_token, the instant of
\* the call and the token returned).
NoIssue ==
  [issued |-> FALSE, data |-> NoClaims, delta |-> NoDelta, t0 |-> 0, tok |-> Garbage]

\* Changing bytes of the payload segment: another JSON object (another
\* subject, a later exp), or bytes that no longer decode.
PayloadTampered(t) ==
  { [t EXCEPT !.seg = s] :
      s \in { Seg([t.seg.json EXCEPT !.sub = "mallory"]),
              Seg([t.seg.json EXCEPT !.exp = @ + 1]),
              CorruptSeg } }

\* Changing bytes of the signature segment so that it decodes to other
\* bytes: the MAC under another key, or arbitrary bytes.
SignatureBytesTampered(t) ==
  { [t EXCEPT !.mac = m] : m \in {Hmac(OtherKey, t.alg, t.seg), NoMac} }

\* Changing only the unused bits of the last signature character.
SignaturePadTampered(t) == { [t EXCEPT !.pad = 1] }

SignatureTampered(t) == SignatureBytesTampered(t) \cup SignaturePadTampered(t)

\* Tokens that no call of create_access_token returned: a string that is
\* no token, two tokens without exp signed with the configured secret (one
\* of them with an aud claim), a token signed with another secret, and an
\* unsigned token with alg none.
ForeignTokens ==
  { Garbage,
    jwt_encode([NoClaims EXCEPT !.sub = "alice"], SECRET_KEY, ALGORITHM),
    jwt_encode([NoClaims EXCEPT !.sub = "alice", !.aud = "inventory"],
               SECRET_KEY, ALGORITHM),
    jwt_encode([NoClaims EXCEPT !.sub = "alice", !.exp = MaxTime], OtherKey, ALGORITHM),
    [jwt_encode([NoClaims EXCEPT !.sub = "alice"], "", "none") EXCEPT !.mac = NoMac] }

Presentable ==
  ForeignTokens \cup
  (IF tk.issued
   THEN {tk.tok} \cup PayloadTampered(tk.tok) \cup SignatureTampered(tk.tok)
   ELSE {})

\* Authorization headers: none, another scheme, or Bearer with a token.
Headers ==
  {NoHeader, Header("Basic", Garbage)} \cup { Header("Bearer", t) : t \in Presentable }

NoResponse == Response(0, FALSE, FALSE, PyNone)
\* The login form sent and the endpoint's answer (none outside a login).
NoLogin ==
  [username |-> "", password |-> [head |-> "", len |-> 0, tail |-> ""],
   status |-> 0, detail |-> "",
   challenge |-> FALSE, token_type |-> ""]
NoObs ==
  [op |-> "none", header |-> NoHeader, tok |-> Garbage, at |-> 0,
   res |-> PyNone, resp |-> NoResponse, login |-> NoLogin]

Issue ==
  /\ ~tk.issued
  /\ \E data \in Datas, d \in Deltas :
       tk' = [issued |-> TRUE, data |-> data, delta |-> d, t0 |-> now,
              tok |-> create_access_token(data, d, now)]
  /\ UNCHANGED <<now, obs>>

Tick ==
  /\ now < MaxTime
  /\ now' = now + 1
  /\ UNCHANGED <<tk, obs>>

Verify ==
  /\ \E t \in Presentable :
       obs' = [op |-> "verify", header |-> NoHeader, tok |-> t, at |-> now,
               res |-> verify_access_token(t, now), resp |-> NoResponse,
               login |-> NoLogin]
  /\ UNCHANGED <<now, tk>>

\* Correctly signed tokens: the issued one, one without exp signed with
\* the configured secret, and one signed with the other secret.
SignedTokens ==
  { t \in Presentable :
      t.fmt = "jws" /\ t.pad = 0 /\ t.mac = Hmac(t.mac.key, t.alg, t.seg) }

\* A signed token is presented to verify_access_token of this process, or
\* of a process that was started with another SECRET_KEY.
VerifyAcross ==
  /\ \E t \in SignedTokens, s \in {Settings, OtherSettings} :
       obs' = [op |-> IF s = Settings THEN "verify" ELSE "verify_elsewhere",
               header |-> NoHeader, tok |-> t, at |-> now,
               res |-> verify_access_token_in(s, t, now),
               resp |-> NoResponse, login |-> NoLogin]
  /\ UNCHANGED <<now, tk>>

Request ==
  /\ \E h \in Headers :
       LET r == guarded_route(h, now)
       IN  obs' = [op |-> "request", header |-> h, tok |-> h.param, at |-> now,
                   res |-> r.user, resp |-> r, login |-> NoLogin]
  /\ UNCHANGED <<now, tk>>

----------------------------------------------------------------------------
(* Passwords and the password hasher (passlib CryptContext, bcrypt).       *)
(* A password is a byte string, written as                                 *)
(*   head  its first min(len, 72) bytes (a name for them),                 *)
(*   len   its length in bytes (UTF-8),                                    *)
(*   tail  the bytes after the 72nd ("" when there are none).              *)

PasswordMaxBytes == 72
BcryptInputBytes == 72

Pw(head, len, tail) == [head |-> head, len |-> len, tail |-> tail]

Passwords ==
  { Pw("secret123", 9, ""), Pw("wrong", 5, ""),
    Pw("long", 72, ""), Pw("long", 73, "x"), Pw("long", 73, "y") }

Salts == {"salt1", "salt2"}

\* bcrypt reads at most the first 72 bytes of its input.
bcrypt_input(p) ==
  IF p.len > BcryptInputBytes
  THEN [p EXCEPT !.len = BcryptInputBytes, !.tail = ""]
  ELSE p

\* An ideal salted one-way function: two hashes are equal only when salt
\* and the bytes bcrypt read are.
Bcrypt(salt, p) == [scheme |-> "bcrypt", salt |-> salt, input |-> bcrypt_input(p)]

\* JWTManager.get_password_hash(password); salt is the salt drawn.
get_password_hash(password, salt) == Bcrypt(salt, password)

\* The outcome of a call: the value returned, or the exception raised.
Returned(v) == [raised |-> "", value |-> v]
Raised(e) == [raised |-> e, value |-> FALSE]

\* Strings that get_password_hash never returns: the empty string, a
\* password stored as it was typed, and a bcrypt hash cut short (the
\* "$2b$" prefix is there, the salt and digest are not).
MalformedHashes ==
  { [scheme |-> "", salt |-> "", input |-> Pw("", 0, "")],
    [scheme |-> "", salt |-> "", input |-> Pw("secret123", 9, "")],
    [scheme |-> "bcrypt", salt |-> "", input |-> Pw("", 0, "")] }

\* Variant of verify_password with a defect: any bcrypt hash verifies.
verify_password_any(plain_password, hashed_password) ==
  Returned(hashed_password.scheme = "bcrypt")

\* JWTManager.verify_password(plain_password, hashed_password), that is
\* pwd_context.verify: a string no configured scheme identifies raises
\* UnknownHashError, a bcrypt string that does not parse raises ValueError;
\* otherwise the hash is recomputed with the salt embedded in
\* hashed_password and compared.
verify_password(plain_password, hashed_password) ==
  IF hashed_password.scheme # "bcrypt" THEN Raised("UnknownHashError")
  ELSE IF hashed_password.salt \notin Salts THEN Raised("ValueError")
  ELSE Returned(Bcrypt(hashed_password.salt, plain_password) = hashed_password)

\* Variant of the validator with a defect: 72 bytes are refused too.
password_length_check_off_by_one(v) == v.len >= PasswordMaxBytes

\* UserCreateDTO.password_length_check: TRUE when the validator raises.
password_length_check(v) == v.len > PasswordMaxBytes

----------------------------------------------------------------------------
(* The User Directory: the users table behind UserRepositoryImpl.          *)

Usernames == {"alice", "bob"}
Emails == {"a@x.io", "b@x.io"}
Handlers == {"h1", "h2"}

NoHash == [scheme |-> "", salt |-> "", input |-> Pw("", 0, "")]
NoRow == [id |-> 0, username |-> "", email |-> "", password_hash |-> NoHash]

\* Variant of the row with a defect: the hash is not stored.
Row_without_hash(id, username, email, h) ==
  [id |-> id, username |-> username, email |-> email, password_hash |-> NoHash]

Row(id, username, email, h) ==
  [id |-> id, username |-> username, email |-> email, password_hash |-> h]

\* UserRepositoryImpl.get_user_by_username / get_user_by_email: the rows
\* the query matches (.first() is None exactly when there is none).
get_user_by_username(table, username) == { r \in table : r.username = username }
get_user_by_email(table, email) == { r \in table : r.email = email }

\* Variant: a storage layer without the constraint.
NoUniqueViolation(table, username, email) == FALSE

\* The uniqueness constraint of the storage layer on username and email:
\* TRUE when inserting (username, email) violates it.
UniqueViolation(table, username, email) ==
  \E r \in table : r.username = username \/ r.email = email

----------------------------------------------------------------------------
(* Request handlers. Each handler serves one call at a time:               *)
(*   user_router   POST /auth/register of api/v1/user_router.py, served by *)
(*                 UserService.register_user, one step per database call;  *)
(*   auth_router   POST /auth/register of api/v1/auth_router.py, served by *)
(*                 UserApplicationService.register_user;                   *)
(*   authenticate  UserApplicationService.authenticate_user;               *)
(*   hash          a direct call of JWTManager.get_password_hash.          *)
(* call[h] holds the arguments, and dup: whether the username or the email *)
(* was in the directory when the call was made. out[h] is the outcome.     *)

NoCall ==
  [op |-> "none", username |-> "", email |-> "", password |-> Pw("", 0, ""),
   dup |-> FALSE]
\* UserDTO.from_model(model)
UserDTO_from_model(model) ==
  [id |-> model.id, username |-> model.username, email |-> model.email]

\* The HTTP answer to a registration: status, detail, and the UserDTO.
NoReply == [status |-> 0, detail |-> "", body |-> UserDTO_from_model(NoRow)]

\* register (auth_router) and register_user (user_router) around the
\* service call whose outcome is kind and user: the UserDTO with 201; a
\* ValueError of the service is caught and answered 400; a body that
\* UserCreateDTO refuses is answered 422 by the framework before the
\* function runs; any other exception is not caught (500).
register(kind, user) ==
  IF kind = "ok"
  THEN [status |-> 201, detail |-> "", body |-> UserDTO_from_model(user)]
  ELSE IF kind = "ValueError: Username already registered"
  THEN [status |-> 400, detail |-> "Username already registered",
        body |-> UserDTO_from_model(NoRow)]
  ELSE IF kind = "ValueError: Email already registered"
  THEN [status |-> 400, detail |-> "Email already registered",
        body |-> UserDTO_from_model(NoRow)]
  ELSE IF kind = "ValidationError"
  THEN [status |-> 422, detail |-> "Password cannot be longer than 72 bytes",
        body |-> UserDTO_from_model(NoRow)]
  ELSE IF kind = "IntegrityError"
  THEN [status |-> 500, detail |-> "Internal Server Error",
        body |-> UserDTO_from_model(NoRow)]
  ELSE NoReply

\* An outcome: of a service call (kind, user) and, for a registration,
\* of the endpoint around it (reply).
NoOut == [kind |-> "none", user |-> NoRow, reply |-> NoReply]
Out(kind, user) == [kind |-> kind, user |-> user, reply |-> register(kind, user)]

RegPasswords == { Pw("secret123", 9, ""), Pw("long", 72, ""), Pw("long", 73, "x") }
LoginNames == Usernames \cup {"admin"}
LoginPasswords == { Pw("secret123", 9, ""), Pw("wrong", 5, "") }

\* UserApplicationService.authenticate_user(username, password)
authenticate_user(username, password) ==
  IF username = "admin" /\ password = Pw("secret123", 9, "")
  THEN Out("identity", [NoRow EXCEPT !.username = "admin"])
  ELSE Out("None", NoRow)

\* The answer of POST /auth/login: the status, the detail and headers of
\* the HTTPException, or the TokenDTO.
LoginReply(status, detail, challenge, access_token, token_type) ==
  [status |-> status, detail |-> detail, challenge |-> challenge,
   access_token |-> access_token, token_type |-> token_type]

\* Variant of login with a defect: the token is issued without looking at
\* what authenticate_user returned.
login_unchecked(username, password, utcnow) ==
  LoginReply(200, "", FALSE,
             create_access_token([NoClaims EXCEPT !.sub = username], NoDelta, utcnow),
             "bearer")

\* Variant of login with a defect: a username other than the known one is
\* answered 404.
login_user_not_found(username, password, utcnow) ==
  IF username # "admin"
  THEN LoginReply(404, "User not found", FALSE, Garbage, "")
  ELSE IF password # [head |-> "secret123", len |-> 9, tail |-> ""]
  THEN LoginReply(401, "Invalid credentials", FALSE, Garbage, "")
  ELSE LoginReply(200, "", FALSE,
                  create_access_token([NoClaims EXCEPT !.sub = username], NoDelta, utcnow),
                  "bearer")

\* auth_router.login(form_data) at the instant utcnow
login(username, password, utcnow) ==
  LET user == authenticate_user(username, password)
  IN  IF user.kind = "None"
      THEN LoginReply(401, "Invalid credentials", FALSE, Garbage, "")
      ELSE LoginReply(200, "", FALSE,
                      create_access_token([NoClaims EXCEPT !.sub = user.user.username],
                                          NoDelta, utcnow),
                      "bearer")

\* POST /auth/login is served; the client verifies the token at once.
Login ==
  /\ \E u \in LoginNames, p \in LoginPasswords :
       LET r == login(u, p, now)
       IN  obs' = [op |-> "login", header |-> NoHeader, tok |-> r.access_token,
                   at |-> now,
                   res |-> IF r.status = 200
                           THEN verify_access_token(r.access_token, now)
                           ELSE PyNone,
                   resp |-> NoResponse,
                   login |-> [username |-> u, password |-> p,
                              status |-> r.status, detail |-> r.detail,
                              challenge |-> r.challenge,
                              token_type |-> r.token_type]]
  /\ UNCHANGED <<now, tk>>

\* What the client reads of a reply: status line, body, and the
\* WWW-Authenticate header when there is one.
ReplyLine(r) ==
  ToString(r.status) \o " " \o r.detail \o r.token_type \o
  (IF r.challenge THEN " WWW-Authenticate: Bearer" ELSE "")

\* POST /auth/login served by handler h.
LoginCall(h) ==
  /\ pc[h] = "idle"
  /\ \E u \in LoginNames, p \in LoginPasswords :
       LET r == login(u, p, now)
       IN  /\ call' = [call EXCEPT ![h] =
                 [op |-> "login", username |-> u, email |-> "", password |-> p,
                  dup |-> get_user_by_username(users, u) # {}]]
           /\ out' = [out EXCEPT ![h] =
                 Out(ReplyLine(r),
                     IF r.status = 200
                     THEN [NoRow EXCEPT !.username = r.access_token.seg.json.sub]
                     ELSE NoRow)]
  /\ pc' = [pc EXCEPT ![h] = "done"]
  /\ UNCHANGED <<users, nextId>>

\* The request body is parsed into a UserCreateDTO; a password the
\* validator refuses ends the request before any service is called.
BeginRegister(h) ==
  /\ pc[h] = "idle"
  /\ \E route \in {"user_router", "auth_router"},
        u \in Usernames, e \in Emails, p \in RegPasswords :
       /\ call' = [call EXCEPT ![h] =
            [op |-> route, username |-> u, email |-> e, password |-> p,
             dup |-> \/ get_user_by_username(users, u) # {}
                     \/ get_user_by_email(users, e) # {}]]
       /\ IF password_length_check(p)
          THEN /\ pc' = [pc EXCEPT ![h] = "done"]
               /\ out' = [out EXCEPT ![h] = Out("ValidationError", NoRow)]
          ELSE /\ pc' = [pc EXCEPT ![h] =
                    IF route = "user_router" THEN "check_username" ELSE "app_register"]
               /\ out' = out
  /\ UNCHANGED <<users, nextId>>

\* UserService.register_user, lines 16-17
CheckUsername(h) ==
  /\ pc[h] = "check_username"
  /\ IF get_user_by_username(users, call[h].username) # {}
     THEN /\ pc' = [pc EXCEPT ![h] = "done"]
          /\ out' = [out EXCEPT ![h] = Out("ValueError: Username already registered", NoRow)]
     ELSE /\ pc' = [pc EXCEPT ![h] = "check_email"]
          /\ out' = out
  /\ UNCHANGED <<users, nextId, call>>

\* UserService.register_user, lines 18-19
CheckEmail(h) ==
  /\ pc[h] = "check_email"
  /\ IF get_user_by_email(users, call[h].email) # {}
     THEN /\ pc' = [pc EXCEPT ![h] = "done"]
          /\ out' = [out EXCEPT ![h] = Out("ValueError: Email already registered", NoRow)]
     ELSE /\ pc' = [pc EXCEPT ![h] = "create_user"]
          /\ out' = out
  /\ UNCHANGED <<users, nextId, call>>

\* session.add(user); session.commit(); session.refresh(user): the row is
\* inserted with the next identifier, or the commit fails on the
\* uniqueness constraint and nothing is inserted.
Insert(h, hashed) ==
  IF UniqueViolation(users, call[h].username, call[h].email)
  THEN /\ out' = [out EXCEPT ![h] = Out("IntegrityError", NoRow)]
       /\ UNCHANGED <<users, nextId>>
  ELSE LET row == Row(nextId, call[h].username, call[h].email, hashed)
       IN  /\ users' = users \cup {row}
           /\ nextId' = nextId + 1
           /\ out' = [out EXCEPT ![h] = Out("ok", row)]

\* UserService.register_user, lines 20-26: get_password_hash, then
\* UserRepositoryImpl.create_user
CreateUser(h) ==
  /\ pc[h] = "create_user"
  /\ \E salt \in Salts : Insert(h, get_password_hash(call[h].password, salt))
  /\ pc' = [pc EXCEPT ![h] = "done"]
  /\ UNCHANGED call

\* UserApplicationService.register_user: no look-up before the insert
AppRegister(h) ==
  /\ pc[h] = "app_register"
  /\ \E salt \in Salts : Insert(h, get_password_hash(call[h].password, salt))
  /\ pc' = [pc EXCEPT ![h] = "done"]
  /\ UNCHANGED call

Authenticate(h) ==
  /\ pc[h] = "idle"
  /\ \E u \in LoginNames, p \in LoginPasswords :
       /\ call' = [call EXCEPT ![h] =
            [op |-> "authenticate", username |-> u, email |-> "", password |-> p,
             dup |-> FALSE]]
       /\ out' = [out EXCEPT ![h] = authenticate_user(u, p)]
  /\ pc' = [pc EXCEPT ![h] = "done"]
  /\ UNCHANGED <<users, nextId>>

HashCall(h) ==
  /\ pc[h] = "idle"
  /\ \E p \in RegPasswords, salt \in Salts :
       /\ call' = [call EXCEPT ![h] =
            [op |-> "hash", username |-> "", email |-> "", password |-> p,
             dup |-> FALSE]]
       /\ out' = [out EXCEPT ![h] =
            Out("hash", [NoRow EXCEPT !.password_hash = get_password_hash(p, salt)])]
  /\ pc' = [pc EXCEPT ![h] = "done"]
  /\ UNCHANGED <<users, nextId>>

\* The response is sent and the handler takes the next request.
Finish(h) ==
  /\ pc[h] = "done"
  /\ pc' = [pc EXCEPT ![h] = "idle"]
  /\ call' = [call EXCEPT ![h] = NoCall]
  /\ out' = [out EXCEPT ![h] = NoOut]
  /\ UNCHANGED <<users, nextId>>

----------------------------------------------------------------------------
(* The password hasher called on its own: a password is hashed, then the   *)
(* same password and a second one are verified against the hash.           *)

HashPassword ==
  /\ pw.phase = "input"
  /\ pw' = [pw EXCEPT !.phase = "hashed",
                      !.hash = get_password_hash(pw.password, pw.salt)]
  /\ UNCHANGED <<tokenVars, userVars, conc, prod>>

VerifyPasswords ==
  /\ pw.phase = "hashed"
  /\ pw' = [pw EXCEPT !.phase = "verified",
                      !.same = verify_password(pw.password, pw.hash).value,
                      !.other = verify_password(pw.candidate, pw.hash).value]
  /\ UNCHANGED <<tokenVars, userVars, conc, prod>>

\* verify_password called with a stored string that is not a hash.
VerifyMalformed ==
  /\ pw.phase = "verified"
  /\ \E h \in MalformedHashes :
       pw' = [pw EXCEPT !.phase = "malformed", !.bad = h,
                        !.badres = verify_password(pw.candidate, h)]
  /\ UNCHANGED <<tokenVars, userVars, conc, prod>>

----------------------------------------------------------------------------
(* JWTManager called from several request handlers at once. Each thread   *)
(* runs one call, a line of jwt_manager.py at a time; the lines of the    *)
(* threads interleave and the clock advances in between.                  *)
(*   conc.settings     the settings module, read by every call            *)
(*   conc.pwd_context  the module-level CryptContext                      *)
(*   conc.th[t]        the call of thread t: its arguments, the caller's  *)
(*                     dict as it is now, the clock value the call read,  *)
(*                     and the value returned                             *)
(*   conc.frame[f]     the local variables held in frame f                *)

Threads == {"t1", "t2"}
FrameIds == Threads \cup {"module"}

\* Arguments the threads call with
ConcDatas == { d \in Datas : d.sub = "alice" /\ d.aud = Absent }
ConcDeltas == {NoDelta, 1}
ConcTokens ==
  { Garbage,
    jwt_encode([NoClaims EXCEPT !.sub = "alice", !.exp = TicksPerSecond],
               SECRET_KEY, ALGORITHM) }
ConcPasswords == { Pw("secret123", 9, ""), Pw("wrong", 5, "") }

\* Variant with a defect: the locals of every call live in one
\* module-level place.
Frame_shared(t) == "module"

\* The frame of the call that thread t runs: its own.
Frame(t) == t

\* Variant of data.copy() with a defect: the caller's dict itself.
dict_alias(data) == [ref |-> "data", val |-> data]

\* data.copy(): a reference to a new dict with the same items.
dict_copy(data) == [ref |-> "copy", val |-> data]

\* A thread that runs no call, and the record of a call before its
\* arguments are filled in.
NoThread == [op |-> "idle", pc |-> "idle"]
NewCall ==
  [op |-> "idle", pc |-> "idle", data0 |-> NoClaims, data |-> NoClaims,
   delta |-> NoDelta, token |-> Garbage, password |-> Pw("", 0, ""),
   hash |-> NoHash, clock |-> 0, token_out |-> Garbage, payload_out |-> PyNone,
   hash_out |-> NoHash, check_out |-> Returned(FALSE)]
NoFrame ==
  [to_encode |-> [ref |-> "none", val |-> NoClaims], expire |-> NoExp,
   payload |-> PyNone]
NoConc ==
  [settings |-> Settings, pwd_context |-> [schemes |-> {"bcrypt"}],
   th |-> [t \in Threads |-> NoThread], frame |-> [f \in FrameIds |-> NoFrame]]

\* The dict that to_encode of frame f refers to, for the call of thread t.
Deref(t, f) ==
  IF conc.frame[f].to_encode.ref = "data" THEN conc.th[t].data
  ELSE conc.frame[f].to_encode.val

\* create_access_token(data, expires_delta) is called.
IssueCall(t) ==
  /\ conc.th[t].pc = "idle"
  /\ \E data \in ConcDatas, d \in ConcDeltas :
       conc' = [conc EXCEPT !.th[t] =
                  [NewCall EXCEPT !.op = "issue", !.pc = "L46", !.data0 = data,
                                   !.data = data, !.delta = d]]
  /\ UNCHANGED <<tokenVars, userVars, pw, prod>>

\* line 46: to_encode = data.copy()
CopyData(t) ==
  /\ conc.th[t].pc = "L46"
  /\ conc' = [conc EXCEPT !.th[t].pc = "L47",
                          !.frame[Frame(t)].to_encode = dict_copy(conc.th[t].data)]
  /\ UNCHANGED <<tokenVars, userVars, pw, prod>>

\* line 47: expire = datetime.utcnow() + (expires_delta or timedelta(...))
ComputeExpire(t) ==
  /\ conc.th[t].pc = "L47"
  /\ LET d == conc.th[t].delta
         delta == IF d = NoDelta \/ d = 0
                  THEN conc.settings.ACCESS_TOKEN_EXPIRE_MINUTES * 60 * TicksPerSecond
                  ELSE d
     IN  conc' = [conc EXCEPT !.th[t].pc = "L48", !.th[t].clock = now,
                              !.frame[Frame(t)].expire = now + delta]
  /\ UNCHANGED <<tokenVars, userVars, pw, prod>>

\* line 48: to_encode.update({"exp": expire})
UpdateExp(t) ==
  /\ conc.th[t].pc = "L48"
  /\ LET f == Frame(t)
     IN  IF conc.frame[f].to_encode.ref = "data"
         THEN conc' = [conc EXCEPT !.th[t].pc = "L49",
                                   !.th[t].data.exp = conc.frame[f].expire]
         ELSE conc' = [conc EXCEPT !.th[t].pc = "L49",
                                   !.frame[f].to_encode.val.exp = conc.frame[f].expire]
  /\ UNCHANGED <<tokenVars, userVars, pw, prod>>

\* line 49: return jwt.encode(to_encode, settings.SECRET_KEY, ...)
EncodeToken(t) ==
  /\ conc.th[t].pc = "L49"
  /\ conc' = [conc EXCEPT !.th[t].pc = "done",
                          !.th[t].token_out =
                             jwt_encode(Deref(t, Frame(t)), conc.settings.SECRET_KEY,
                                        conc.settings.ALGORITHM)]
  /\ UNCHANGED <<tokenVars, userVars, pw, prod>>

\* verify_access_token(token) is called.
VerifyCall(t) ==
  /\ conc.th[t].pc = "idle"
  /\ \E token \in ConcTokens :
       conc' = [conc EXCEPT !.th[t] =
                  [NewCall EXCEPT !.op = "verify", !.pc = "L67", !.token = token]]
  /\ UNCHANGED <<tokenVars, userVars, pw, prod>>

\* line 67: payload = jwt.decode(token, settings.SECRET_KEY, ...), and
\* lines 69-70: except JWTError: return None
DecodeToken(t) ==
  /\ conc.th[t].pc = "L67"
  /\ LET r == jwt_decode(conc.th[t].token, conc.settings.SECRET_KEY,
                         {conc.settings.ALGORITHM}, now)
     IN  IF r.err = ""
         THEN conc' = [conc EXCEPT !.th[t].pc = "L68", !.th[t].clock = now,
                                   !.frame[Frame(t)].payload = PyDict(r.claims)]
         ELSE conc' = [conc EXCEPT !.th[t].pc = "done", !.th[t].clock = now,
                                   !.th[t].payload_out = PyNone]
  /\ UNCHANGED <<tokenVars, userVars, pw, prod>>

\* line 68: return payload
ReturnPayload(t) ==
  /\ conc.th[t].pc = "L68"
  /\ conc' = [conc EXCEPT !.th[t].pc = "done",
                          !.th[t].payload_out = conc.frame[Frame(t)].payload]
  /\ UNCHANGED <<tokenVars, userVars, pw, prod>>

\* get_password_hash(password): return pwd_context.hash(password)
HashInThread(t) ==
  /\ conc.th[t].pc = "idle"
  /\ "bcrypt" \in conc.pwd_context.schemes
  /\ \E p \in ConcPasswords, salt \in Salts :
       conc' = [conc EXCEPT !.th[t] =
                  [NewCall EXCEPT !.op = "hash", !.pc = "done", !.password = p,
                                   !.hash = [NoHash EXCEPT !.salt = salt],
                                   !.hash_out = get_password_hash(p, salt)]]
  /\ UNCHANGED <<tokenVars, userVars, pw, prod>>

\* verify_password(plain_password, hashed_password):
\* return pwd_context.verify(plain_password, hashed_password)
CheckInThread(t) ==
  /\ conc.th[t].pc = "idle"
  /\ "bcrypt" \in conc.pwd_context.schemes
  /\ \E p \in ConcPasswords :
       LET h == get_password_hash(Pw("secret123", 9, ""), "salt1")
       IN  conc' = [conc EXCEPT !.th[t] =
                      [NewCall EXCEPT !.op = "check", !.pc = "done", !.password = p,
                                       !.hash = h,
                                       !.check_out = verify_password(p, h)]]
  /\ UNCHANGED <<tokenVars, userVars, pw, prod>>

\* The call has returned; the thread takes the next request.
ReturnToCaller(t) ==
  /\ conc.th[t].pc = "done"
  /\ conc' = [conc EXCEPT !.th[t] = NoThread, !.frame[Frame(t)] = NoFrame]
  /\ UNCHANGED <<tokenVars, userVars, pw, prod>>

----------------------------------------------------------------------------
(* The product API: api/v1/product_router.py, served by                   *)
(* ProductApplicationService over ProductRepositoryImpl. Every request    *)
(* gets a new service, repository and session, and is served in one step. *)
(* A field of a request body or a column of a row is a cell:              *)
(*   kind  "value", "null" (JSON null, None, NULL) or "unset" (the key is *)
(*         not in the body);                                              *)
(*   v     the value when kind is "value".                                *)
(* The description field is carried like name and is left out.            *)
(*   prod.nullable  whether the products table lets the columns be NULL   *)
(*                  (its definition is not part of the application code)  *)
(*   prod.store     the rows of the products table                        *)
(*   prod.nextId    the next identifier the table assigns                 *)
(*   prod.last      the last request served and what came of it           *)

Value(v) == [kind |-> "value", v |-> v]
NullStr == [kind |-> "null", v |-> ""]
NullNum == [kind |-> "null", v |-> 0]
UnsetStr == [kind |-> "unset", v |-> ""]
UnsetNum == [kind |-> "unset", v |-> 0]

ProductIds == {1, 2}
Product(id, name, price, stock) ==
  [id |-> id, name |-> name, price |-> price, stock |-> stock]
\* None where a Product is expected
NoProduct == Product(0, NullStr, NullNum, NullNum)
Body(name, price, stock) == [name |-> name, price |-> price, stock |-> stock]
NoBody == Body(UnsetStr, UnsetNum, UnsetNum)

\* Request bodies of POST /products/ and PUT /products/{id}
CreateBodies ==
  { Body(n, p, k) : n \in {Value("a"), Value("")},
                    p \in {Value(1), Value(0)},
                    k \in {Value(0), Value(1)} }
UpdateBodies ==
  { Body(n, p, k) : n \in {UnsetStr, Value("b")},
                    p \in {UnsetNum, Value(2)},
                    k \in {UnsetNum, NullNum, Value(0), Value(1), Value(0 - 1)} }

\* Authorization headers a product request may carry: none, a bearer
\* token that fails verification, a bearer token that passes it.
ProductHeaders ==
  { NoHeader, Header("Bearer", Garbage),
    Header("Bearer", jwt_encode([NoClaims EXCEPT !.sub = "alice"], SECRET_KEY, ALGORITHM)) }

\* ProductCreateDTO: name min_length=1, price gt=0, stock ge=0, all
\* required. TRUE when the body is accepted.
ProductCreateDTO(b) ==
  /\ b.name.kind = "value" /\ b.name.v # ""
  /\ b.price.kind = "value" /\ b.price.v > 0
  /\ b.stock.kind = "value" /\ b.stock.v >= 0

\* ProductUpdateDTO: every field Optional with default None; the
\* constraints apply to a value, not to null. TRUE when accepted.
ProductUpdateDTO(b) ==
  /\ b.name.kind = "value" => b.name.v # ""
  /\ b.price.kind = "value" => b.price.v > 0
  /\ b.stock.kind = "value" => b.stock.v >= 0

\* ProductRepositoryImpl.get_product_by_id: the rows the query matches
get_product_by_id(store, product_id) == { r \in store : r.id = product_id }

\* Variant of the update loop with a defect: a field that is not supplied
\* is reset.
setattr_all_reset(product, update_dto) ==
  [product EXCEPT
     !.name = IF update_dto.name.kind = "unset" THEN NullStr ELSE update_dto.name,
     !.price = IF update_dto.price.kind = "unset" THEN NullNum ELSE update_dto.price,
     !.stock = IF update_dto.stock.kind = "unset" THEN NullNum ELSE update_dto.stock]

\* update_dto.dict(exclude_unset=True), then
\* for key, value in update_data.items(): setattr(product, key, value)
setattr_all(product, update_dto) ==
  [product EXCEPT
     !.name = IF update_dto.name.kind = "unset" THEN @ ELSE update_dto.name,
     !.price = IF update_dto.price.kind = "unset" THEN @ ELSE update_dto.price,
     !.stock = IF update_dto.stock.kind = "unset" THEN @ ELSE update_dto.stock]

\* Variant of is_sellable with a defect: a product without stock counts.
is_sellable_always(product) ==
  IF product # NoProduct /\ product.stock.kind = "null" THEN Raised("TypeError")
  ELSE Returned(TRUE)

\* ProductDomainService.is_sellable: getattr(product, "stock", 0) > 0;
\* None has no stock (0); a stock of None cannot be compared (TypeError).
is_sellable(product) ==
  IF product = NoProduct THEN Returned(FALSE)
  ELSE IF product.stock.kind = "null" THEN Raised("TypeError")
  ELSE Returned(product.stock.v > 0)

\* ProductDTO.from_model: "" when the DTO is built, else the exception
\* (float(None); name: str and stock: int refuse None).
ProductDTO_from_model(model) ==
  IF model.price.kind = "null" THEN "TypeError"
  ELSE IF model.name.kind = "null" \/ model.stock.kind = "null" THEN "ValidationError"
  ELSE ""

\* What came of a request: the store and the next identifier after it,
\* the HTTP status, the exception that ended it ("" for none), whether the
\* endpoint function ran, the commits and publications in their order, the
\* value the service returned (a product, or NoProduct for None/False).
Served(store, nid, status, error, ran, trace, result) ==
  [store |-> store, nextId |-> nid, status |-> status, error |-> error,
   ran |-> ran, trace |-> trace, result |-> result]

\* Variant with a defect: the routes also depend on get_current_user.
RouteDependencies_gated(route) ==
  {"get_product_application_service", "get_current_user"}

\* The dependencies the routes of the product router declare
RouteDependencies(route) == {"get_product_application_service"}

\* The dependencies of the route are resolved: TRUE when the endpoint
\* function is called.
Admitted(route, header, utcnow) ==
  "get_current_user" \in RouteDependencies(route) =>
    guarded_route(header, utcnow).status # 401

\* ProductRepositoryImpl.create_product: Product(**product_data), add,
\* commit, refresh; the table assigns the identifier.
repository_create_product(st, product_data) ==
  LET product == Product(st.nextId, product_data.name, product_data.price,
                         product_data.stock)
  IN [store |-> st.store \cup {product}, nextId |-> st.nextId + 1,
      product |-> product, raised |-> ""]

\* ProductRepositoryImpl.update_product: None for an unknown id; else the
\* supplied attributes are set and committed. A None written to a column
\* the table declares NOT NULL fails the commit with IntegrityError.
repository_update_product(st, product_id, update_dto) ==
  LET found == get_product_by_id(st.store, product_id) IN
  IF found = {} THEN
    [store |-> st.store, product |-> NoProduct, raised |-> ""]
  ELSE
    LET old == CHOOSE r \in found : TRUE
        product == setattr_all(old, update_dto)
    IN IF /\ ~st.nullable
          /\ "null" \in {product.name.kind, product.price.kind, product.stock.kind}
       THEN [store |-> st.store, product |-> NoProduct, raised |-> "IntegrityError"]
       ELSE [store |-> (st.store \ {old}) \cup {product},
             product |-> product, raised |-> ""]

\* Variant of delete_product with a defect: the whole table is emptied.
repository_delete_product_all(st, product_id) ==
  LET found == get_product_by_id(st.store, product_id) IN
  IF found = {} THEN [store |-> st.store, deleted |-> FALSE]
  ELSE [store |-> {}, deleted |-> TRUE]

\* ProductRepositoryImpl.delete_product: False for an unknown id; else
\* the row is deleted and committed, True.
repository_delete_product(st, product_id) ==
  LET found == get_product_by_id(st.store, product_id) IN
  IF found = {} THEN [store |-> st.store, deleted |-> FALSE]
  ELSE [store |-> st.store \ found, deleted |-> TRUE]

\* GET /products/: the endpoint calls service.list_products(), which
\* ProductApplicationService does not define (AttributeError).
list_products(st) ==
  Served(st.store, st.nextId, 500, "AttributeError", TRUE, <<>>, NoProduct)

\* POST /products/: the body is validated as ProductCreateDTO, then
\* ProductApplicationService.create_product: the row is created and
\* committed, the created event is published when the product is
\* sellable, and the product is returned as ProductDTO with status 201.
create_product(st, product) ==
  IF ~ProductCreateDTO(product) THEN
    Served(st.store, st.nextId, 422, "RequestValidationError", FALSE, <<>>, NoProduct)
  ELSE
    LET r == repository_create_product(st, product)
        s == is_sellable(r.product)
        trace == <<"commit">> \o
                 (IF s.value THEN <<"publish_product_created">> ELSE <<>>)
    IN Served(r.store, r.nextId, 201, "", TRUE, trace, r.product)

\* PUT /products/{product_id}: the body is validated as ProductUpdateDTO,
\* then ProductApplicationService.update_product: the repository's update,
\* the updated event when the product is sellable; the endpoint answers
\* None with `raise HTTPException(...)`, a name product_router.py does not
\* import (NameError), and a product with ProductDTO.from_model.
update_product(st, product_id, update_dto) ==
  IF ~ProductUpdateDTO(update_dto) THEN
    Served(st.store, st.nextId, 422, "RequestValidationError", FALSE, <<>>, NoProduct)
  ELSE
    LET r == repository_update_product(st, product_id, update_dto) IN
    IF r.raised # "" THEN
      Served(r.store, st.nextId, 500, r.raised, TRUE, <<>>, NoProduct)
    ELSE
      LET committed == IF r.product = NoProduct THEN <<>> ELSE <<"commit">>
          s == is_sellable(r.product)
      IN IF s.raised # "" THEN
           Served(r.store, st.nextId, 500, s.raised, TRUE, committed, NoProduct)
         ELSE
           LET trace == committed \o
                        (IF s.value THEN <<"publish_product_updated">> ELSE <<>>)
               e == ProductDTO_from_model(r.product)
           IN IF r.product = NoProduct THEN
                Served(r.store, st.nextId, 500, "NameError", TRUE, trace, NoProduct)
              ELSE
                Served(r.store, st.nextId, IF e = "" THEN 200 ELSE 500, e, TRUE,
                       trace, r.product)

\* DELETE /products/{product_id}: ProductApplicationService.delete_product
\* returns the repository's answer; the endpoint answers False with
\* `raise HTTPException(...)` (NameError, as in update_product), True with
\* status 204.
delete_product(st, product_id) ==
  LET r == repository_delete_product(st, product_id) IN
  IF r.deleted THEN
    Served(r.store, st.nextId, 204, "", TRUE, <<"commit">>, NoProduct)
  ELSE
    Served(r.store, st.nextId, 500, "NameError", TRUE, <<>>, NoProduct)

\* The answer to a request the dependencies of its route do not admit
Unauthorized(st) ==
  Served(st.store, st.nextId, 401, "HTTPException", FALSE, <<>>, NoProduct)

NoLast ==
  [op |-> "none", header |-> NoHeader, id |-> 0, body |-> NoBody,
   status |-> 0, error |-> "", ran |-> FALSE, trace |-> <<>>,
   result |-> NoProduct]
NoProd == [nullable |-> FALSE, store |-> {}, nextId |-> 1, last |-> NoLast]

\* One request: the dependencies are resolved, the endpoint is served,
\* the store and the record of the request are replaced.
Serve(op, header, id, body, served) ==
  LET res == IF Admitted(op, header, now) THEN served ELSE Unauthorized(prod) IN
  prod' = [nullable |-> prod.nullable, store |-> res.store,
           nextId |-> res.nextId,
           last |-> [op |-> op, header |-> header, id |-> id, body |-> body,
                     status |-> res.status, error |-> res.error,
                     ran |-> res.ran, trace |-> res.trace,
                     result |-> res.result]]

ListProducts ==
  \E header \in ProductHeaders :
    Serve("list_products", header, 0, NoBody, list_products(prod))

CreateProduct ==
  /\ prod.nextId \in ProductIds
  /\ \E header \in ProductHeaders, product \in CreateBodies :
       Serve("create_product", header, 0, product, create_product(prod, product))

UpdateProduct ==
  \E header \in ProductHeaders, product_id \in ProductIds,
     update_dto \in UpdateBodies :
    Serve("update_product", header, product_id, update_dto,
          update_product(prod, product_id, update_dto))

DeleteProduct ==
  \E header \in ProductHeaders, product_id \in ProductIds :
    Serve("delete_product", header, product_id, NoBody,
          delete_product(prod, product_id))

InitToken == now = 0 /\ tk = NoIssue /\ obs = NoObs
InitUsers ==
  /\ users = {}
  /\ nextId = 1
  /\ pc = [h \in Handlers |-> "idle"]
  /\ call = [h \in Handlers |-> NoCall]
  /\ out = [h \in Handlers |-> NoOut]
NoPw ==
  [phase |-> "none", password |-> Pw("", 0, ""), candidate |-> Pw("", 0, ""),
   salt |-> "", hash |-> NoHash, same |-> FALSE, other |-> FALSE,
   bad |-> NoHash, badres |-> Returned(FALSE)]

Init == InitToken /\ InitUsers /\ pw = NoPw /\ conc = NoConc /\ prod = NoProd

NextToken ==
  \/ Issue /\ UNCHANGED <<userVars, pw, conc, prod>>
  \/ Tick /\ UNCHANGED <<userVars, pw, conc, prod>>
  \/ Verify /\ UNCHANGED <<userVars, pw, conc, prod>>
  \/ Request /\ UNCHANGED <<userVars, pw, conc, prod>>

\* The token life cycle
Spec == Init /\ [][NextToken]_vars

NextLogin ==
  \/ Issue /\ UNCHANGED <<userVars, pw, conc, prod>>
  \/ Tick /\ UNCHANGED <<userVars, pw, conc, prod>>
  \/ VerifyAcross /\ UNCHANGED <<userVars, pw, conc, prod>>
  \/ Login /\ UNCHANGED <<userVars, pw, conc, prod>>

\* Tokens issued by login and by create_access_token, verified by this
\* process and by a process started with another secret
SpecLogin == Init /\ [][NextLogin]_vars

NextUsers ==
  \/ \E h \in Handlers : BeginRegister(h) /\ UNCHANGED <<tokenVars, pw, conc, prod>>
  \/ \E h \in Handlers : CheckUsername(h) /\ UNCHANGED <<tokenVars, pw, conc, prod>>
  \/ \E h \in Handlers : CheckEmail(h) /\ UNCHANGED <<tokenVars, pw, conc, prod>>
  \/ \E h \in Handlers : CreateUser(h) /\ UNCHANGED <<tokenVars, pw, conc, prod>>
  \/ \E h \in Handlers : AppRegister(h) /\ UNCHANGED <<tokenVars, pw, conc, prod>>
  \/ \E h \in Handlers : Authenticate(h) /\ UNCHANGED <<tokenVars, pw, conc, prod>>
  \/ \E h \in Handlers : HashCall(h) /\ UNCHANGED <<tokenVars, pw, conc, prod>>
  \/ \E h \in Handlers : LoginCall(h) /\ UNCHANGED <<tokenVars, pw, conc, prod>>
  \/ \E h \in Handlers : Finish(h) /\ UNCHANGED <<tokenVars, pw, conc, prod>>

\* Registration and login calls served concurrently by the handlers
SpecUsers == Init /\ [][NextUsers]_vars

InitPw ==
  /\ InitToken
  /\ InitUsers
  /\ pw \in [phase : {"input"}, password : Passwords, candidate : Passwords,
             salt : Salts, hash : {NoHash}, same : {FALSE}, other : {FALSE},
             bad : {NoHash}, badres : {Returned(FALSE)}]
  /\ conc = NoConc
  /\ prod = NoProd

NextPw == HashPassword \/ VerifyPasswords \/ VerifyMalformed

\* The password hasher on every pair of passwords
SpecPw == InitPw /\ [][NextPw]_vars

NextConc ==
  \/ Tick /\ UNCHANGED <<userVars, pw, conc, prod>>
  \/ \E t \in Threads : IssueCall(t)
  \/ \E t \in Threads : CopyData(t)
  \/ \E t \in Threads : ComputeExpire(t)
  \/ \E t \in Threads : UpdateExp(t)
  \/ \E t \in Threads : EncodeToken(t)
  \/ \E t \in Threads : VerifyCall(t)
  \/ \E t \in Threads : DecodeToken(t)
  \/ \E t \in Threads : ReturnPayload(t)
  \/ \E t \in Threads : HashInThread(t)
  \/ \E t \in Threads : CheckInThread(t)
  \/ \E t \in Threads : ReturnToCaller(t)

\* JWTManager called from concurrent request handlers
SpecConc == Init /\ [][NextConc]_vars

\* The product API; the table either lets its columns be NULL or not.
InitProducts ==
  /\ InitToken /\ InitUsers /\ pw = NoPw /\ conc = NoConc
  /\ prod \in {[NoProd EXCEPT !.nullable = n] : n \in BOOLEAN}

NextProducts ==
  \/ ListProducts /\ UNCHANGED <<tokenVars, userVars, pw, conc>>
  \/ CreateProduct /\ UNCHANGED <<tokenVars, userVars, pw, conc>>
  \/ UpdateProduct /\ UNCHANGED <<tokenVars, userVars, pw, conc>>
  \/ DeleteProduct /\ UNCHANGED <<tokenVars, userVars, pw, conc>>

SpecProducts == InitProducts /\ [][NextProducts]_vars

----------------------------------------------------------------------------
(* Properties of the token life cycle (specification Spec)                 *)

\* obs is a direct call of verify_access_token on the issued token, as
\* create_access_token returned it, the token having an explicit ttl > 0.
VerifiedIssued ==
  /\ tk.issued
  /\ tk.delta > 0
  /\ obs.op = "verify"
  /\ obs.tok = tk.tok

\* The signature of t is the MAC of its header and payload segments under
\* the configured secret and algorithm.
SignatureValid(t) ==
  /\ t.fmt = "jws"
  /\ t.alg = "HS256"
  /\ t.mac = [key |-> "generate-a-strong-key-for-prod", alg |-> "HS256", seg |-> t.seg]

\* C1 as stated: a token issued for claims C with ttl > 0 at T0 and verified
\* at now < T0 + ttl is accepted, and the claims returned are C with
\* exp = T0 + ttl, nothing else added, removed or changed.
C1_Original ==
  (VerifiedIssued /\ obs.at < tk.t0 + tk.delta) =>
    /\ ~obs.res.isNone
    /\ obs.res.claims = [tk.data EXCEPT !.exp = obs.res.claims.exp]
    /\ obs.res.claims.exp * TicksPerSecond = tk.t0 + tk.delta

\* C1 amended: for claims C without an aud claim, the token verified at
\* now < T0 + ttl is accepted and the claims returned are C with exp set to
\* T0 + ttl truncated to whole seconds, nothing else changed.
C1_RoundTrip ==
  (VerifiedIssued /\ obs.at < tk.t0 + tk.delta /\ tk.data.aud = Absent) =>
    obs.res = [isNone |-> FALSE,
               claims |-> [tk.data EXCEPT
                             !.exp = (tk.t0 + tk.delta) \div TicksPerSecond]]

C1_Witness ==
  /\ VerifiedIssued
  /\ tk.t0 < obs.at
  /\ obs.at < tk.t0 + tk.delta
  /\ tk.data.aud = Absent
  /\ tk.data.sub = "alice"
  /\ (tk.t0 + tk.delta) % TicksPerSecond # 0
  /\ ~obs.res.isNone

\* C2 as stated: the issued token verified at any now >= T0 + ttl, the
\* boundary included, returns no claims.
C2_Original ==
  (VerifiedIssued /\ obs.at >= tk.t0 + tk.delta) => obs.res.isNone

\* C2 amended: the issued token verified at an instant whose whole second
\* is later than exp (T0 + ttl truncated to whole seconds) returns None.
C2_Expired ==
  (VerifiedIssued /\
   obs.at \div TicksPerSecond > (tk.t0 + tk.delta) \div TicksPerSecond) =>
    obs.res = PyNone

C2_Witness ==
  /\ VerifiedIssued
  /\ tk.data.aud = Absent
  /\ obs.at \div TicksPerSecond = ((tk.t0 + tk.delta) \div TicksPerSecond) + 1
  /\ obs.res.isNone

\* C3: a request to a guarded route whose Authorization header is missing
\* or malformed, or whose bearer token fails verification, is answered 401
\* with WWW-Authenticate: Bearer and the handler does not run.
C3_Rejected ==
  (/\ obs.op = "request"
   /\ \/ ~obs.header.present
      \/ obs.header.scheme # "Bearer"
      \/ verify_access_token(obs.tok, obs.at).isNone) =>
    /\ obs.resp.status = 401
    /\ obs.resp.challenge
    /\ ~obs.resp.handlerRan

\* C4 as stated: verify_access_token returns claims only for a token with a
\* valid signature whose exp, when present, has not passed.
C4_Original ==
  (obs.op = "verify" /\ ~obs.res.isNone) =>
    /\ SignatureValid(obs.tok)
    /\ obs.res.claims = obs.tok.seg.json
    /\ \/ obs.res.claims.exp = NoExp
       \/ obs.at <= obs.res.claims.exp * TicksPerSecond

\* C4 amended: verify_access_token returns claims only for a token with a
\* valid signature whose exp, when present, is not earlier than the current
\* time truncated to whole seconds; the claims are those of the token.
C4_OnlyValid ==
  (obs.op = "verify" /\ ~obs.res.isNone) =>
    /\ SignatureValid(obs.tok)
    /\ obs.res.claims = obs.tok.seg.json
    /\ \/ obs.res.claims.exp = NoExp
       \/ obs.at \div TicksPerSecond <= obs.res.claims.exp

C4_Witness ==
  /\ VerifiedIssued
  /\ tk.t0 < obs.at
  /\ ~obs.res.isNone
  /\ obs.res.claims.exp # NoExp

\* obs is a direct call of verify_access_token on the issued token with
\* bytes of its payload segment (resp. its signature segment) changed.
VerifiedPayloadTampered ==
  tk.issued /\ obs.op = "verify" /\ obs.tok \in PayloadTampered(tk.tok)
VerifiedSignatureTampered ==
  tk.issued /\ obs.op = "verify" /\ obs.tok \in SignatureTampered(tk.tok)

\* C5 as stated: a changed payload or signature segment makes
\* verify_access_token return no claims, with a result that differs from
\* the one for a malformed token.
C5_Original ==
  (VerifiedPayloadTampered \/ VerifiedSignatureTampered) =>
    /\ obs.res.isNone
    /\ obs.res # verify_access_token(Garbage, obs.at)

\* C5 amended: a changed payload segment, or a signature segment changed
\* so that it decodes to other bytes, makes verify_access_token return
\* None, the result it returns for a malformed token too.
C5_TamperRejected ==
  (\/ VerifiedPayloadTampered
   \/ tk.issued /\ obs.op = "verify" /\ obs.tok \in SignatureBytesTampered(tk.tok)) =>
    /\ obs.res = PyNone
    /\ obs.res = verify_access_token(Garbage, obs.at)

C5_Witness ==
  /\ VerifiedPayloadTampered
  /\ obs.tok.seg.ok
  /\ obs.tok.seg.json.sub = "mallory"
  /\ ~verify_access_token(tk.tok, obs.at).isNone
  /\ obs.res.isNone

\* C12 as stated: login answers a token of type bearer exactly when
\* authenticate_user returns an identity and 401 otherwise; the token,
\* verified at once, yields the authenticated username as sub and
\* exp = issue time + the default TTL.
C12_Original ==
  obs.op = "login" =>
    LET user == authenticate_user(obs.login.username, obs.login.password)
    IN  /\ obs.login.status = 200 <=> user.kind = "identity"
        /\ obs.login.status # 200 => obs.login.status = 401
        /\ obs.login.status = 200 =>
              /\ obs.login.token_type = "bearer"
              /\ ~obs.res.isNone
              /\ obs.res.claims.sub = user.user.username
              /\ obs.res.claims.sub = obs.login.username
              /\ obs.res.claims.exp * TicksPerSecond = obs.at + DefaultDelta

\* C12 amended: as stated, with exp = issue time + the default TTL
\* truncated to whole seconds.
C12_Login ==
  obs.op = "login" =>
    LET user == authenticate_user(obs.login.username, obs.login.password)
    IN  /\ obs.login.status = 200 <=> user.kind = "identity"
        /\ obs.login.status # 200 => obs.login.status = 401
        /\ obs.login.status = 200 =>
              /\ obs.login.token_type = "bearer"
              /\ SignatureValid(obs.tok)
              /\ obs.res = [isNone |-> FALSE,
                            claims |-> [sub |-> obs.login.username, aud |-> Absent,
                                        exp |-> (obs.at + DefaultDelta) \div TicksPerSecond]]
              /\ user.user.username = obs.login.username

C12_Witness ==
  /\ obs.op = "login"
  /\ obs.login.status = 200
  /\ obs.login.username = "admin"
  /\ obs.at % TicksPerSecond # 0
  /\ obs.res.claims.sub = "admin"

\* C18: a token issued under the secret K is accepted only by a
\* verification that uses K: verify_access_token of a process configured
\* with another secret rejects every token signed under K, and
\* create_access_token and verify_access_token of one process use the same
\* secret and algorithm.
C18_SameSecret ==
  /\ tk.issued =>
       /\ SignatureValid(tk.tok)
       /\ tk.tok.mac.key = Settings.SECRET_KEY /\ tk.tok.alg = Settings.ALGORITHM
  /\ (obs.op = "verify_elsewhere" /\ obs.tok.mac.key = SECRET_KEY) =>
       obs.res = PyNone
  /\ (obs.op = "verify_elsewhere" /\ ~obs.res.isNone) =>
       obs.tok.mac.key = OtherKey
  /\ (obs.op = "verify" /\ ~obs.res.isNone) =>
       /\ obs.tok.mac.key = SECRET_KEY
       /\ obs.tok.alg = ALGORITHM

\* The issued token, valid in the issuing process at that instant, is
\* presented to the process with the other secret.
C18_Witness ==
  /\ tk.issued
  /\ obs.op = "verify_elsewhere"
  /\ obs.tok = tk.tok
  /\ ~verify_access_token(tk.tok, obs.at).isNone
  /\ obs.res.isNone

C21_ExpiresDelta ==
  tk.issued =>
    /\ tk.delta # NoDelta =>
         tk.tok.seg.json.exp = (tk.t0 + tk.delta) \div TicksPerSecond
    /\ tk.delta = NoDelta =>
         tk.tok.seg.json.exp = (tk.t0 + DefaultDelta) \div TicksPerSecond

\* C22: with a clock that never goes back, a token that
\* verify_access_token has rejected is rejected at every later instant, and
\* no step (issue, verify, login, the clock) changes the issued token or
\* makes a rejected token accepted.
C22_Monotone ==
  /\ [](/\ obs.at <= now
        /\ (obs.op = "verify" /\ obs.res.isNone) =>
             verify_access_token(obs.tok, now).isNone)
  /\ [][/\ now' >= now
        /\ tk.issued => tk' = tk
        /\ \A t \in SignedTokens :
             verify_access_token(t, now).isNone =>
               verify_access_token(t, now').isNone
       ]_vars

\* The issued token, accepted when it was issued, was rejected as expired
\* by a verification, and the clock has advanced since.
C22_Witness ==
  /\ tk.issued /\ tk.data.aud = Absent
  /\ ~verify_access_token(tk.tok, tk.t0).isNone
  /\ obs.op = "verify" /\ obs.tok = tk.tok
  /\ obs.res.isNone
  /\ obs.at < now

\* C16: whenever get_current_user hands a value to a route handler, the
\* value is the claims mapping of a token that passed verification, and it
\* holds a sub claim; it is never empty or absent.
C16_CurrentUser ==
  (obs.op = "request" /\ obs.resp.handlerRan) =>
    /\ ~obs.resp.user.isNone
    /\ SignatureValid(obs.tok)
    /\ obs.resp.user.claims = obs.tok.seg.json
    /\ obs.resp.user.claims.sub # Absent

----------------------------------------------------------------------------
(* Properties of registration and login (specification SpecUsers)          *)

Registering(h) == call[h].op \in {"user_router", "auth_router"}

\* C6: authenticate_user(username, password) returns an identity exactly
\* when the directory holds a user with that username whose stored hash
\* verifies the password, and None otherwise.
C6_Authenticate ==
  \A h \in Handlers :
    (pc[h] = "done" /\ call[h].op = "authenticate") =>
      /\ out[h].kind \in {"identity", "None"}
      /\ out[h].kind = "identity" <=>
           \E r \in users :
             /\ r.username = call[h].username
             /\ r.password_hash.scheme = "bcrypt"
             /\ r.password_hash.input = call[h].password

\* C7: register_user called with a username or an email that is already in
\* the directory fails with the DuplicateUser condition (the ValueError of
\* UserService.register_user).
C7_Duplicate ==
  \A h \in Handlers :
    (pc[h] = "done" /\ Registering(h) /\ call[h].dup /\ call[h].password.len <= 72) =>
      out[h].kind \in {"ValueError: Username already registered",
                       "ValueError: Email already registered"}

\* C8: the directory never holds two records with the same username or the
\* same email, and two registrations of one username never both succeed.
C8_Unique ==
  /\ \A r1, r2 \in users :
       r1 # r2 => r1.username # r2.username /\ r1.email # r2.email /\ r1.id # r2.id
  /\ \A h1, h2 \in Handlers :
       (h1 # h2 /\ out[h1].kind = "ok" /\ out[h2].kind = "ok") =>
         out[h1].user.username # out[h2].user.username

\* Two calls of UserService.register_user for one username both passed
\* the look-ups; one of them was inserted and the other one's insert failed.
C8_Witness ==
  \E h1, h2 \in Handlers :
    /\ h1 # h2
    /\ call[h1].op = "user_router" /\ call[h2].op = "user_router"
    /\ call[h1].username = call[h2].username
    /\ ~call[h1].dup /\ ~call[h2].dup
    /\ out[h1].kind = "ok"
    /\ out[h2].kind = "IntegrityError"

\* C9 as stated: get_password_hash fails with PasswordTooLong for a password
\* of more than 72 bytes, and a registration with such a password creates
\* no record.
C9_Original ==
  \A h \in Handlers :
    (pc[h] = "done" /\ call[h].password.len > 72) =>
      /\ call[h].op = "hash" => out[h].kind = "PasswordTooLong"
      /\ Registering(h) => out[h].kind # "ok"

\* C9 amended: a registration whose password is longer than 72 bytes is
\* refused by the validator of UserCreateDTO before any service runs (no
\* look-up, no hashing, no insert); one of at most 72 bytes is not refused.
C9_Validated ==
  \A h \in Handlers :
    Registering(h) =>
      /\ call[h].password.len > 72 =>
           pc[h] = "done" /\ out[h].kind = "ValidationError" /\ out[h].user = NoRow
      /\ call[h].password.len <= 72 => out[h].kind # "ValidationError"

C9_Witness ==
  \E h1, h2 \in Handlers :
    /\ Registering(h1) /\ call[h1].password.len = 73
    /\ out[h1].kind = "ValidationError"
    /\ Registering(h2) /\ call[h2].password.len = 72
    /\ out[h2].kind = "ok"
    /\ users = {out[h2].user}

\* C14: register_user with a username and an email that are not in the
\* directory adds exactly one record, whose password_hash is a bcrypt hash
\* that verifies the password supplied; it returns that record with the id
\* assigned, and the endpoint answers with id, username and email only.
C14_Registered ==
  [][\A h \in Handlers :
      (/\ pc[h] \in {"create_user", "app_register"}
       /\ pc'[h] = "done"
       /\ get_user_by_username(users, call[h].username) = {}
       /\ get_user_by_email(users, call[h].email) = {}) =>
        LET user == out'[h].user
        IN  /\ out'[h].kind = "ok"
            /\ user \notin users
            /\ users' = users \cup {user}
            /\ user.id = nextId /\ user.id >= 1
            /\ user.username = call[h].username
            /\ user.email = call[h].email
            /\ user.password_hash.scheme = "bcrypt"
            /\ user.password_hash.salt \in Salts
            /\ verify_password(call[h].password, user.password_hash) =
                 [raised |-> "", value |-> TRUE]
            /\ out'[h].reply =
                 [status |-> 201, detail |-> "",
                  body |-> [id |-> user.id, username |-> user.username,
                            email |-> user.email]]
    ]_vars

C14_Witness ==
  \E h \in Handlers :
    /\ pc[h] = "done" /\ Registering(h) /\ ~call[h].dup
    /\ out[h].kind = "ok"
    /\ out[h].user \in users
    /\ out[h].user.id = 2
    /\ Cardinality(users) = 2
    /\ out[h].reply.status = 201
    /\ out[h].reply.body.username = call[h].username

\* C15: every registration that fails, because the username or the email
\* is a duplicate or because the input fails validation, is answered 400.
C15_BadRequest ==
  \A h \in Handlers :
    (pc[h] = "done" /\ Registering(h) /\ out[h].kind # "ok") =>
      out[h].reply.status = 400

\* C13: two failed logins, one with a username that is not in the
\* directory and one with a username that is and a wrong password, are
\* answered with the same status (401), body and headers.
C13_Indistinguishable ==
  \A h1, h2 \in Handlers :
    (/\ pc[h1] = "done" /\ call[h1].op = "login" /\ ~call[h1].dup
     /\ pc[h2] = "done" /\ call[h2].op = "login"
     /\ authenticate_user(call[h1].username, call[h1].password).kind = "None"
     /\ authenticate_user(call[h2].username, call[h2].password).kind = "None") =>
      /\ out[h1] = out[h2]
      /\ out[h1].kind = "401 Invalid credentials"
      /\ out[h1].user = NoRow

C13_Witness ==
  \E h1, h2 \in Handlers :
    /\ call[h1].op = "login" /\ call[h1].username = "bob" /\ ~call[h1].dup
    /\ call[h2].op = "login" /\ call[h2].username = "alice" /\ call[h2].dup
    /\ call[h2].password = [head |-> "wrong", len |-> 5, tail |-> ""]
    /\ \E r \in users : r.username = "alice" /\ r.password_hash.input.head = "secret123"
    /\ out[h1].kind = "401 Invalid credentials"
    /\ out[h1] = out[h2]

----------------------------------------------------------------------------
(* Properties of the password hasher (specification SpecPw)                *)

\* C10 as stated: a password of at most 72 bytes verifies against its own
\* hash, and no password verifies against the hash of a different one.
C10_Original ==
  pw.phase = "verified" =>
    /\ pw.password.len <= 72 => pw.same
    /\ pw.candidate # pw.password => ~pw.other

\* C10 amended: a password of at most 72 bytes verifies against its own
\* hash, and of two different passwords of at most 72 bytes each, neither
\* verifies against the hash of the other.
C10_Verify ==
  pw.phase = "verified" =>
    /\ pw.password.len <= 72 => pw.same
    /\ (/\ pw.candidate # pw.password
        /\ pw.candidate.len <= 72
        /\ pw.password.len <= 72) => ~pw.other

C10_Witness ==
  /\ pw.phase = "verified"
  /\ pw.password = [head |-> "secret123", len |-> 9, tail |-> ""]
  /\ pw.candidate = [head |-> "wrong", len |-> 5, tail |-> ""]
  /\ pw.same
  /\ ~pw.other

\* C11: verify_password called with any plaintext and a string that
\* get_password_hash did not produce returns false and raises nothing.
C11_MalformedHash ==
  pw.phase = "malformed" => pw.badres = [raised |-> "", value |-> FALSE]

----------------------------------------------------------------------------
(* Properties of concurrent calls of JWTManager (specification SpecConc)   *)

\* C17: under any interleaving of concurrent calls, the result of each
\* call of create_access_token, verify_access_token, get_password_hash and
\* verify_password is the result of that call run alone with the same
\* arguments, settings and clock value; the settings and the hashing
\* context are never written.
C17_Isolation ==
  /\ conc.settings = Settings
  /\ conc.pwd_context = [schemes |-> {"bcrypt"}]
  /\ \A t \in Threads :
       LET c == conc.th[t]
       IN  c.pc = "done" =>
             /\ c.op = "issue" =>
                  c.token_out = create_access_token(c.data0, c.delta, c.clock)
             /\ c.op = "verify" =>
                  c.payload_out = verify_access_token(c.token, c.clock)
             /\ c.op = "hash" =>
                  c.hash_out = get_password_hash(c.password, c.hash.salt)
             /\ c.op = "check" =>
                  c.check_out = verify_password(c.password, c.hash)

\* Two calls of create_access_token with different arguments overlap and
\* read different clock values; one has returned, the other is at line 49.
C17_Witness ==
  \E t1, t2 \in Threads :
    /\ conc.th[t1].op = "issue" /\ conc.th[t1].pc = "done"
    /\ conc.th[t2].op = "issue" /\ conc.th[t2].pc = "L49"
    /\ conc.th[t1].data0 # conc.th[t2].data0
    /\ conc.th[t1].delta # conc.th[t2].delta
    /\ conc.th[t1].clock > conc.th[t2].clock
    /\ conc.th[t1].token_out.seg.json.exp # NoExp

\* The ttl of the call of thread t, in ticks.
TtlOf(t) ==
  IF conc.th[t].delta = NoDelta THEN DefaultDelta ELSE conc.th[t].delta

\* C20 as stated: after create_access_token the caller's dict is as it
\* was, and the exp of the token is now + ttl, whatever exp the caller's
\* dict holds.
C20_Original ==
  \A t \in Threads :
    (conc.th[t].op = "issue" /\ conc.th[t].pc = "done") =>
      /\ conc.th[t].data = conc.th[t].data0
      /\ conc.th[t].token_out.seg.json.exp * TicksPerSecond =
           conc.th[t].clock + TtlOf(t)

\* C20 amended: after create_access_token the caller's dict is as it was,
\* and the exp of the token is now + ttl truncated to whole seconds: the
\* token is the one issued for the same dict without its exp.
C20_Copy ==
  \A t \in Threads :
    (conc.th[t].op = "issue" /\ conc.th[t].pc = "done") =>
      /\ conc.th[t].data = conc.th[t].data0
      /\ conc.th[t].token_out.seg.json.exp =
           (conc.th[t].clock + TtlOf(t)) \div TicksPerSecond
      /\ conc.th[t].token_out =
           create_access_token([conc.th[t].data0 EXCEPT !.exp = NoExp],
                               conc.th[t].delta, conc.th[t].clock)

C20_Witness ==
  \E t \in Threads :
    /\ conc.th[t].op = "issue" /\ conc.th[t].pc = "done"
    /\ conc.th[t].data0.exp = 1
    /\ conc.th[t].data.exp = 1
    /\ conc.th[t].clock >= TicksPerSecond
    /\ conc.th[t].token_out.seg.json.exp >= 1

----------------------------------------------------------------------------
(* Properties of the product API, under SpecProducts *)

\* The endpoint's answer to the request recorded in p.last, served on the
\* state st, without the resolution of the route's dependencies
Endpoint(st, last) ==
  CASE last.op = "list_products" -> list_products(st)
    [] last.op = "create_product" -> create_product(st, last.body)
    [] last.op = "update_product" -> update_product(st, last.id, last.body)
    [] last.op = "delete_product" -> delete_product(st, last.id)

C24_UpdateFrame ==
  [][(prod' # prod /\ prod'.last.op = "update_product") =>
       LET id == prod'.last.id
           body == prod'.last.body
           old == get_product_by_id(prod.store, id)
           new == get_product_by_id(prod'.store, id)
       IN /\ prod.store \ old = prod'.store \ new
          /\ Cardinality(new) = Cardinality(old)
          /\ \A o \in old, n \in new :
               /\ n.id = o.id
               /\ IF "commit" \in {prod'.last.trace[i] : i \in DOMAIN prod'.last.trace}
                  THEN \A f \in {"name", "price", "stock"} :
                         n[f] = IF body[f].kind = "unset" THEN o[f] ELSE body[f]
                  ELSE n = o
    ]_vars

\* An update supplying only the name has been committed on one of two
\* stored products: the name is the supplied one, price and stock are
\* those the product was created with.
C24_Witness ==
  /\ prod.last.op = "update_product" /\ prod.last.status = 200
  /\ prod.last.body = Body(Value("b"), UnsetNum, UnsetNum)
  /\ prod.last.result \in prod.store
  /\ prod.last.result.name = Value("b")
  /\ prod.last.result.price = Value(1)
  /\ prod.last.result.stock = Value(1)
  /\ Cardinality(prod.store) = 2

\* C25: a well-formed update or delete request for an id that is not in
\* the store is answered 404, leaves every stored product unchanged and
\* publishes no event.
C25_NotFound ==
  [][(/\ prod' # prod
      /\ prod'.last.op \in {"update_product", "delete_product"}
      /\ prod'.last.status # 422
      /\ get_product_by_id(prod.store, prod'.last.id) = {}) =>
       /\ prod'.last.status = 404
       /\ prod'.store = prod.store
       /\ prod'.last.trace = <<>>
    ]_vars

\* C26: after any sequence of create, update and delete requests, every
\* product in the store has a non-empty name, a price above 0 and a stock
\* of at least 0.
C26_Constraints ==
  \A product \in prod.store :
    /\ product.name.kind = "value" /\ product.name.v # ""
    /\ product.price.kind = "value" /\ product.price.v > 0
    /\ product.stock.kind = "value" /\ product.stock.v >= 0

C28_Delete ==
  [][(prod' # prod /\ prod'.last.op = "delete_product") =>
       LET id == prod'.last.id
           found == get_product_by_id(prod.store, id)
           first == repository_delete_product(prod, id)
           second == repository_delete_product(prod', id)
       IN /\ prod'.store = first.store
          /\ first.deleted <=> prod'.last.status = 204
          /\ found # {} =>
               /\ first.deleted
               /\ Cardinality(found) = 1
               /\ prod'.store = prod.store \ found
               /\ get_product_by_id(prod'.store, id) = {}
          /\ found = {} => ~first.deleted /\ prod'.store = prod.store
          /\ ~second.deleted /\ second.store = prod'.store
    ]_vars

\* A second delete of an id that was assigned and deleted before has
\* returned False, while another product is still stored.
C28_Witness ==
  /\ prod.last.op = "delete_product"
  /\ prod.last.id < prod.nextId
  /\ prod.last.status # 204
  /\ get_product_by_id(prod.store, prod.last.id) = {}
  /\ prod.store # {}

====
